---- MODULE Spec2Model ----
(***************************************************************************)
(* A model of the two pipelines of the repository:                         *)
(*   - src/src/stl_exporter.py : export_step / create_session /            *)
(*     fetch_step_content, the authenticated STEP fetch that follows one   *)
(*     redirect by hand;                                                   *)
(*   - src/src/stl_converter.py : stl_to_vtk and its four stages.          *)
(* The HTTP client, the transport and the mesh libraries are external:     *)
(* what they answer is a nondeterministic choice over small sets, what the *)
(* code does with the answer is translated from the source.                *)
(***************************************************************************)
EXTENDS Integers, Sequences, FiniteSets, TLC

\* ------------------------------------------------------------------ bounds
MaxCalls == 2        \* export_step calls in one behaviour
MaxRedirects == 1    \* hops the HTTP client follows inside one get (Session.max_redirects)
MaxRuns == 2         \* stl_to_vtk calls in one behaviour

\* ------------------------------------------------------- export: the inputs
DocumentIds == {"d1"}
WorkspaceIds == {"w1"}
ElementIds == {"e1"}
AccessKeys == {"ak1", "ak2"}
SecretKeys == {"sk1"}

\* src.constants is imported by stl_exporter.py and is not part of the sources
BASE_URL == "https://cad.example/api"
STEP_HEADERS == "Accept: STEP"

NoneVal == "<None>"                          \* Python's None
Locations == {"http://x/payload", "http://y/other"}
LocationHeaders == {NoneVal, ""} \cup Locations   \* absent, empty, or a target
Statuses == {200, 301, 302, 307, 404, 500}
Bodies == {"B1", "B2"}

Responses == [status : Statuses, location : LocationHeaders, content : Bodies]
\* the answer slot of a request that got no response (connection refused, TLS, ...)
NoAnswer == [status |-> 0, location |-> NoneVal, content |-> ""]

\* ---------------------------------------------------- export: exceptions
Exc(type, msg, cause) == [type |-> type, msg |-> msg, cause |-> cause]
NoExc == Exc("None", "", "None")
ConnectionError == Exc("ConnectionError", "transport", "None")
HTTPError == Exc("HTTPError", "status", "None")
TooManyRedirects == Exc("TooManyRedirects", "redirects", "None")
\* the classes caught by 'except requests.RequestException'
IsRequestException(e) == e.type \in {"ConnectionError", "HTTPError", "TooManyRedirects"}

MissingLocation == Exc("RuntimeError", "Redirect expected but 'Location' header is missing.", "None")
\* RuntimeError(f"Unexpected response status code: {response.status_code}")
UnexpectedStatus(status) ==
    Exc("RuntimeError", "Unexpected response status code: " \o ToString(status), "None")

WrapDropsCause(e) == Exc("RuntimeError", "Failed to fetch STEP content.", "None")
\* raise RuntimeError("Failed to fetch STEP content.") from e
WrapFailure(e) == Exc("RuntimeError", "Failed to fetch STEP content.", e.type)

\* the try/except of fetch_step_content: what leaves the function when e is raised inside
Propagate(e) == IF IsRequestException(e) THEN WrapFailure(e) ELSE e

\* ------------------------------------------------ export: pure conditions
RaisesOnly5xx(status) == 500 <= status /\ status < 600
\* response.raise_for_status(): raises HTTPError for 4xx and 5xx
RaisesForStatus(status) == 400 <= status /\ status < 600

RedirectAlso301(status) == status \in {301, 302, 307}
\* response.status_code in (302, 307)
IsHandledRedirect(status) == status \in {302, 307}

OnlyNoneMissing(redirect_url) == redirect_url = NoneVal
\* not redirect_url: None and the empty string are both falsy
LocationMissing(redirect_url) == redirect_url \in {NoneVal, ""}

\* the client's own rule for a response it follows when allow_redirects is on
ClientFollows(r) == r.status \in {301, 302, 303, 307, 308} /\ r.location \notin {NoneVal, ""}

ExportUrl(base_url, document_id, workspace_id, element_id) ==
    <<base_url, "/partstudios/d/", document_id, "/w/", workspace_id, "/e/", element_id, "/export/step">>

FirstGetFollows == TRUE
\* session.get(url, allow_redirects=False)
FirstGetAllowRedirects == FALSE
\* session.get(redirect_url): no allow_redirects argument, the client's default for GET
SecondGetAllowRedirects == TRUE

ContentOfFirst(response, step_response) == response.content
\* return step_response.content
ReturnedContent(response, step_response) == step_response.content

VARIABLES
    pc,             \* position inside export_step / fetch_step_content
    ncalls,         \* export_step calls started so far
    args,           \* arguments of the current export_step call
    sessions,       \* every Session object created so far: id -> its fields
    session,        \* local 'session' of the current call (an id, 0 before creation)
    response,       \* local 'response'
    redirect_url,   \* local 'redirect_url'
    step_response,  \* local 'step_response' (the client's latest response while it follows)
    wire,           \* the requests of the current call as the transport saw them
    outcome         \* what the current call handed to its caller

VARIABLES
    mpc,            \* position inside stl_to_vtk
    nruns,          \* stl_to_vtk calls started so far
    margs,          \* arguments of the current stl_to_vtk call
    vertices, faces,                \* locals of stl_to_vtk
    clean_vertices, clean_faces,
    nodes, cells,
    libcalls,       \* the library calls of the current run, in order, with what they got
    files,          \* the file system: path -> what was written there
    merror          \* the exception the current run handed to its caller

meshVars == <<mpc, nruns, margs, vertices, faces, clean_vertices, clean_faces,
              nodes, cells, libcalls, files, merror>>

exportVars == <<pc, ncalls, args, sessions, session, response, redirect_url,
                step_response, wire, outcome>>

NoArgs == [document_id |-> "", workspace_id |-> "", element_id |-> "",
           access_key |-> "", secret_key |-> ""]
NoOutcome == [kind |-> "none", content |-> "", exc |-> NoExc]
Returned(b) == [kind |-> "bytes", content |-> b, exc |-> NoExc]
Raised(e) == [kind |-> "raise", content |-> "", exc |-> e]

ReuseFirstSession(heap) == 1
\* session = requests.Session(): a fresh object, never one that already exists
AllocSession(heap) == Len(heap) + 1

SessionWithoutAuth(access_key, secret_key, headers) ==
    [auth |-> <<"", "">>, headers |-> headers, closed |-> FALSE]
\* create_session: session.auth = (access_key, secret_key); session.headers.update(headers)
CreateSession(access_key, secret_key, headers) ==
    [auth |-> <<access_key, secret_key>>, headers |-> headers, closed |-> FALSE]

ClosedAtExit(s) == [s EXCEPT !.closed = TRUE]
\* export_step ends with 'return content' (or the exception passing through): no
\* session.close(), no 'with' block, so the object is left as it is
SessionAtExit(s) == s

\* one request on the wire: which session.get of the call it belongs to (get), how many
\* hops the client had already followed (hop), and what came back
Request(get, hop, url, allow_redirects, auth, answer) ==
    [get |-> get, hop |-> hop, url |-> url, allow_redirects |-> allow_redirects,
     sess |-> session, auth |-> auth, headers |-> sessions[session].headers,
     answer |-> answer]

ExportInit ==
    /\ pc = "idle"
    /\ ncalls = 0
    /\ args = NoArgs
    /\ sessions = <<>>
    /\ session = 0
    /\ response = NoAnswer
    /\ redirect_url = NoneVal
    /\ step_response = NoAnswer
    /\ wire = <<>>
    /\ outcome = NoOutcome

\* export_step is called: session = create_session(access_key, secret_key, STEP_HEADERS)
ExportStep ==
    /\ UNCHANGED meshVars
    /\ pc = "idle"
    /\ ncalls < MaxCalls
    /\ \E d \in DocumentIds, w \in WorkspaceIds, e \in ElementIds,
          ak \in AccessKeys, sk \in SecretKeys :
        LET id == AllocSession(sessions) IN
        /\ args' = [document_id |-> d, workspace_id |-> w, element_id |-> e,
                    access_key |-> ak, secret_key |-> sk]
        /\ sessions' = [i \in (DOMAIN sessions) \cup {id} |->
                          IF i = id THEN CreateSession(ak, sk, STEP_HEADERS)
                          ELSE sessions[i]]
        /\ session' = id
    /\ ncalls' = ncalls + 1
    /\ pc' = "get1"
    /\ UNCHANGED <<response, redirect_url, step_response, wire, outcome>>

Url == ExportUrl(BASE_URL, args.document_id, args.workspace_id, args.element_id)

\* response = session.get(url, allow_redirects=False)
FirstGet ==
    /\ UNCHANGED meshVars
    /\ pc = "get1"
    /\ \/ \E r \in Responses :
            /\ wire' = Append(wire, Request(1, 0, Url, FirstGetAllowRedirects, sessions[session].auth, r))
            /\ response' = r
            /\ pc' = "check1"
            /\ outcome' = outcome
       \/ /\ wire' = Append(wire, Request(1, 0, Url, FirstGetAllowRedirects, sessions[session].auth, NoAnswer))
          /\ response' = response
          /\ outcome' = Raised(Propagate(ConnectionError))
          /\ pc' = "done"
    /\ UNCHANGED <<ncalls, args, sessions, session, redirect_url, step_response>>

\* response.raise_for_status(); the 302/307 branch up to the Location test; the else branch
CheckFirst ==
    /\ UNCHANGED meshVars
    /\ pc = "check1"
    /\ \/ /\ RaisesForStatus(response.status)
          /\ outcome' = Raised(Propagate(HTTPError))
          /\ redirect_url' = redirect_url
          /\ pc' = "done"
       \/ /\ ~RaisesForStatus(response.status)
          /\ IsHandledRedirect(response.status)
          /\ redirect_url' = response.location
          /\ IF LocationMissing(response.location)
             THEN outcome' = Raised(Propagate(MissingLocation)) /\ pc' = "done"
             ELSE outcome' = outcome /\ pc' = "get2"
       \/ /\ ~RaisesForStatus(response.status)
          /\ ~IsHandledRedirect(response.status)
          /\ outcome' = Raised(Propagate(UnexpectedStatus(response.status)))
          /\ redirect_url' = redirect_url
          /\ pc' = "done"
    /\ UNCHANGED <<ncalls, args, sessions, session, response, step_response, wire>>

\* step_response = session.get(redirect_url): the request the code asks for; whether the
\* client then follows a redirect by itself is SecondGetAllowRedirects
SecondGet ==
    /\ UNCHANGED meshVars
    /\ pc = "get2"
    /\ \/ \E r \in Responses :
            /\ wire' = Append(wire, Request(2, 0, redirect_url, SecondGetAllowRedirects, sessions[session].auth, r))
            /\ step_response' = r
            /\ pc' = IF SecondGetAllowRedirects /\ ClientFollows(r) THEN "follow" ELSE "check2"
            /\ outcome' = outcome
       \/ /\ wire' = Append(wire, Request(2, 0, redirect_url, SecondGetAllowRedirects, sessions[session].auth, NoAnswer))
          /\ step_response' = step_response
          /\ outcome' = Raised(Propagate(ConnectionError))
          /\ pc' = "done"
    /\ UNCHANGED <<ncalls, args, sessions, session, response, redirect_url>>

\* credentials of a hop the client follows by itself: kept or stripped by the client
ClientManaged == <<"<client>", "<client>">>

Hops == Len(SelectSeq(wire, LAMBDA q : q.get = 2 /\ q.hop > 0))

\* still inside session.get(redirect_url): the client follows the Location of the response
\* it holds, up to its redirect limit
FollowRedirect ==
    /\ UNCHANGED meshVars
    /\ pc = "follow"
    /\ \/ /\ Hops >= MaxRedirects
          /\ outcome' = Raised(Propagate(TooManyRedirects))
          /\ UNCHANGED <<wire, step_response>>
          /\ pc' = "done"
       \/ /\ Hops < MaxRedirects
          /\ \E r \in Responses :
                /\ wire' = Append(wire, Request(2, Hops + 1, step_response.location, TRUE, ClientManaged, r))
                /\ step_response' = r
                /\ pc' = IF ClientFollows(r) THEN "follow" ELSE "check2"
                /\ outcome' = outcome
       \/ /\ Hops < MaxRedirects
          /\ wire' = Append(wire, Request(2, Hops + 1, step_response.location, TRUE, ClientManaged, NoAnswer))
          /\ step_response' = step_response
          /\ outcome' = Raised(Propagate(ConnectionError))
          /\ pc' = "done"
    /\ UNCHANGED <<ncalls, args, sessions, session, response, redirect_url>>

\* step_response.raise_for_status(); return step_response.content
CheckSecond ==
    /\ UNCHANGED meshVars
    /\ pc = "check2"
    /\ \/ /\ RaisesForStatus(step_response.status)
          /\ outcome' = Raised(Propagate(HTTPError))
       \/ /\ ~RaisesForStatus(step_response.status)
          /\ outcome' = Returned(ReturnedContent(response, step_response))
    /\ pc' = "done"
    /\ UNCHANGED <<ncalls, args, sessions, session, response, redirect_url, step_response, wire>>

\* export_step hands content (or the exception) to its caller; its locals go out of scope
ExportReturn ==
    /\ UNCHANGED meshVars
    /\ pc = "done"
    /\ pc' = "idle"
    /\ args' = NoArgs
    /\ session' = 0
    /\ response' = NoAnswer
    /\ redirect_url' = NoneVal
    /\ step_response' = NoAnswer
    /\ wire' = <<>>
    /\ outcome' = NoOutcome
    /\ sessions' = [sessions EXCEPT ![session] = SessionAtExit(@)]
    /\ UNCHANGED <<ncalls>>

ExportNext ==
    \/ ExportStep
    \/ FirstGet
    \/ CheckFirst
    \/ SecondGet
    \/ FollowRedirect
    \/ CheckSecond
    \/ ExportReturn

\* ------------------------------------------------------ stl_to_vtk: inputs
StlInputs == {"stl1", "stl2"}
OutputPaths == {"data/a.vtk", "data/b.vtk"}
OptionKeys == {"maxvolume", "mindratio"}
OptionValues == {1, 2}
Mappings == UNION {[K -> OptionValues] : K \in SUBSET OptionKeys}
\* a value of the tetgen_options parameter: None, or a dict
PyNone == [none |-> TRUE, items |-> <<>>]
PyDict(m) == [none |-> FALSE, items |-> m]
OptionArgs == {PyNone} \cup {PyDict(m) : m \in Mappings}

\* what the libraries can hand back
ParsedVertices == {"V1", "V2"}
ParsedFaces == {"F1", "F2"}
RepairedVertices == {"CV1", "CV2"}
RepairedFaces == {"CF1"}
TetNodes == {"N1", "N2"}
TetElems == {"E1"}
Unset == "<unset>"
NoFile == [points |-> "<no file>", cells |-> <<>>]

\* the exceptions of the libraries
ParseFailure == Exc("ValueError", "not an STL", "None")
RepairFailure == Exc("RuntimeError", "repair failed", "None")
TetgenFailure == Exc("RuntimeError", "tetrahedralize failed", "None")
WriteFailure == Exc("OSError", "cannot write", "None")

\* one call into a library: what it got, and what it returned or raised
LibCall(fn, arg, kwargs, ret, raised) ==
    [fn |-> fn, arg |-> arg, kwargs |-> kwargs, ok |-> (raised = NoExc), ret |-> ret,
     raised |-> raised]

WrapsFailure(e) == Exc("RuntimeError", "conversion failed", e.type)
\* stl_to_vtk has no try/except: the exception of a stage is the exception of the call
Uncaught(e) == e

DefaultsAlways(tetgen_options) == <<>>
\* tetgen_options = tetgen_options or {}; tgen.tetrahedralize(**tetgen_options)
TetgenKwargs(tetgen_options) ==
    IF tetgen_options.none \/ tetgen_options.items = <<>> THEN <<>> ELSE tetgen_options.items

\* meshfix.repair(verbose=True, joincomp=True, remove_smallest_components=False)
RepairKwargs == [verbose |-> TRUE, joincomp |-> TRUE, remove_smallest_components |-> FALSE]

RepairSkipped(v, f, cv, cf) == <<v, f>>
\* tetrahedralize_mesh(clean_vertices, clean_faces, tetgen_options) -> tetgen.TetGen(vertices, faces)
TetgenInput(v, f, cv, cf) == <<cv, cf>>

\* meshio.Mesh(points=nodes, cells=[("tetra", cells)]); meshio.write(path, mesh)
VtkMesh(points, tets) == [points |-> points, cells |-> <<"tetra", tets>>]

SwallowsFailure(stage, raised) ==
    CASE stage = "parse" -> IF raised THEN "done" ELSE "repair"
      [] stage = "repair" -> IF raised THEN "done" ELSE "tetrahedralize"
      [] stage = "tetrahedralize" -> "save"
      [] stage = "save" -> "done"
\* the body of stl_to_vtk is four statements in a row with no try: a stage that raises
\* ends the call, a stage that returns is followed by the next one
AfterStage(stage, raised) ==
    IF raised THEN "done"
    ELSE CASE stage = "parse" -> "repair"
           [] stage = "repair" -> "tetrahedralize"
           [] stage = "tetrahedralize" -> "save"
           [] stage = "save" -> "done"

NoMeshArgs == [stl_data |-> "", output_path |-> "", tetgen_options |-> PyNone]

MeshInit ==
    /\ mpc = "idle"
    /\ nruns = 0
    /\ margs = NoMeshArgs
    /\ vertices = Unset /\ faces = Unset
    /\ clean_vertices = Unset /\ clean_faces = Unset
    /\ nodes = Unset /\ cells = Unset
    /\ libcalls = <<>>
    /\ files = [p \in OutputPaths |-> NoFile]
    /\ merror = NoExc

\* stl_to_vtk(stl_data, output_path, tetgen_options) is called
StlToVtk ==
    /\ UNCHANGED exportVars
    /\ mpc = "idle"
    /\ nruns < MaxRuns
    /\ \E d \in StlInputs, p \in OutputPaths, o \in OptionArgs :
          margs' = [stl_data |-> d, output_path |-> p, tetgen_options |-> o]
    /\ nruns' = nruns + 1
    /\ mpc' = "parse"
    /\ UNCHANGED <<vertices, faces, clean_vertices, clean_faces, nodes, cells,
                   libcalls, files, merror>>

\* vertices, faces = create_2d_mesh(stl_data)
Create2dMesh ==
    /\ UNCHANGED exportVars
    /\ mpc = "parse"
    /\ \/ \E v \in ParsedVertices, f \in ParsedFaces :
            /\ libcalls' = Append(libcalls,
                  LibCall("trimesh.load", margs.stl_data, [file_type |-> "stl"], <<v, f>>, NoExc))
            /\ vertices' = v
            /\ faces' = f
            /\ merror' = merror
            /\ mpc' = AfterStage("parse", FALSE)
       \/ /\ libcalls' = Append(libcalls,
                  LibCall("trimesh.load", margs.stl_data, [file_type |-> "stl"], <<>>, ParseFailure))
          /\ UNCHANGED <<vertices, faces>>
          /\ merror' = Uncaught(ParseFailure)
          /\ mpc' = AfterStage("parse", TRUE)
    /\ UNCHANGED <<nruns, margs, clean_vertices, clean_faces, nodes, cells, files>>

\* clean_vertices, clean_faces = clean_mesh(vertices, faces)
CleanMesh ==
    /\ UNCHANGED exportVars
    /\ mpc = "repair"
    /\ \/ \E v \in RepairedVertices, f \in RepairedFaces :
            /\ libcalls' = Append(libcalls,
                  LibCall("MeshFix.repair", <<vertices, faces>>, RepairKwargs, <<v, f>>, NoExc))
            /\ clean_vertices' = v
            /\ clean_faces' = f
            /\ merror' = merror
            /\ mpc' = AfterStage("repair", FALSE)
       \/ /\ libcalls' = Append(libcalls,
                  LibCall("MeshFix.repair", <<vertices, faces>>, RepairKwargs, <<>>, RepairFailure))
          /\ UNCHANGED <<clean_vertices, clean_faces>>
          /\ merror' = Uncaught(RepairFailure)
          /\ mpc' = AfterStage("repair", TRUE)
    /\ UNCHANGED <<nruns, margs, vertices, faces, nodes, cells, files>>

\* nodes, cells = tetrahedralize_mesh(clean_vertices, clean_faces, tetgen_options)
TetrahedralizeMesh ==
    /\ UNCHANGED exportVars
    /\ mpc = "tetrahedralize"
    /\ LET in == TetgenInput(vertices, faces, clean_vertices, clean_faces)
           kw == TetgenKwargs(margs.tetgen_options) IN
       \/ \E n \in TetNodes, e \in TetElems :
            /\ libcalls' = Append(libcalls,
                  LibCall("TetGen.tetrahedralize", in, kw, <<n, e>>, NoExc))
            /\ nodes' = n
            /\ cells' = e
            /\ merror' = merror
            /\ mpc' = AfterStage("tetrahedralize", FALSE)
       \/ /\ libcalls' = Append(libcalls,
                  LibCall("TetGen.tetrahedralize", in, kw, <<>>, TetgenFailure))
          /\ UNCHANGED <<nodes, cells>>
          /\ merror' = Uncaught(TetgenFailure)
          /\ mpc' = AfterStage("tetrahedralize", TRUE)
    /\ UNCHANGED <<nruns, margs, vertices, faces, clean_vertices, clean_faces, files>>

\* save_mesh_to_vtk(nodes, cells, output_path)
SaveMeshToVtk ==
    /\ UNCHANGED exportVars
    /\ mpc = "save"
    /\ LET mesh == VtkMesh(nodes, cells) IN
       \/ /\ libcalls' = Append(libcalls,
                  LibCall("meshio.write", <<margs.output_path, mesh>>, <<>>, <<>>, NoExc))
          /\ files' = [files EXCEPT ![margs.output_path] = mesh]
          /\ merror' = merror
          /\ mpc' = AfterStage("save", FALSE)
       \/ /\ libcalls' = Append(libcalls,
                  LibCall("meshio.write", <<margs.output_path, mesh>>, <<>>, <<>>, WriteFailure))
          /\ files' = files
          /\ merror' = Uncaught(WriteFailure)
          /\ mpc' = AfterStage("save", TRUE)
    /\ UNCHANGED <<nruns, margs, vertices, faces, clean_vertices, clean_faces, nodes, cells>>

\* stl_to_vtk returns (or the exception leaves it); its locals go out of scope
StlToVtkReturn ==
    /\ UNCHANGED exportVars
    /\ mpc = "done"
    /\ mpc' = "idle"
    /\ margs' = NoMeshArgs
    /\ vertices' = Unset /\ faces' = Unset
    /\ clean_vertices' = Unset /\ clean_faces' = Unset
    /\ nodes' = Unset /\ cells' = Unset
    /\ libcalls' = <<>>
    /\ merror' = NoExc
    /\ UNCHANGED <<nruns, files>>

MeshNext ==
    \/ StlToVtk
    \/ Create2dMesh
    \/ CleanMesh
    \/ TetrahedralizeMesh
    \/ SaveMeshToVtk
    \/ StlToVtkReturn

vars == <<exportVars, meshVars>>
Init == ExportInit /\ MeshInit
Spec == Init /\ [][ExportNext]_vars
MeshSpec == Init /\ [][MeshNext]_vars

\* =================================================================== claims
\* ---- export: helpers over the requests of the current call
IsError(status) == 400 <= status /\ status < 600
Answered(i) == Len(wire) >= i /\ wire[i].answer # NoAnswer
FirstIsRedirect == Answered(1) /\ wire[1].answer.status \in {302, 307}
HasTarget(r) == r.location # NoneVal /\ r.location # ""
LastAnswer == wire[Len(wire)].answer
FailedToFetch(cause) == Exc("RuntimeError", "Failed to fetch STEP content.", cause)
GetCalls == Len(SelectSeq(wire, LAMBDA q : q.hop = 0))
Credentials == <<args.access_key, args.secret_key>>

\* C1 as stated: if the first GET answers 302/307 with a non-empty Location and the GET of
\* that Location answers with any non-error status and body B, the call returns exactly B.
C1_AsStated ==
    (/\ pc = "done"
     /\ FirstIsRedirect /\ HasTarget(wire[1].answer)
     /\ Answered(2) /\ wire[2].url = wire[1].answer.location
     /\ ~IsError(wire[2].answer.status))
    => outcome = Returned(wire[2].answer.content)

\* C1 amended: if the first GET answers 302/307 with a non-empty Location and the GET of
\* that Location answers with a non-error status that is not itself a redirect the client
\* follows (301/302/303/307/308 with a non-empty Location) and with body B, the call
\* returns exactly B, the body of the second response and not of the first.
C1_ReturnsSecondBody ==
    (/\ pc = "done"
     /\ FirstIsRedirect /\ HasTarget(wire[1].answer)
     /\ Answered(2) /\ wire[2].url = wire[1].answer.location
     /\ ~IsError(wire[2].answer.status)
     /\ ~(wire[2].answer.status \in {301, 302, 303, 307, 308} /\ HasTarget(wire[2].answer)))
    => outcome = Returned(wire[2].answer.content)

C1_Witness ==
    /\ pc = "done"
    /\ Len(wire) = 2
    /\ wire[1].answer.status = 307 /\ wire[1].answer.content = "B1"
    /\ wire[2].answer.status = 200 /\ wire[2].answer.content = "B2"
    /\ outcome = Returned("B2")

\* C2: when the first GET answers 302 or 307 and the Location header is absent or empty,
\* the call fails with the "Redirect expected but 'Location' header is missing" error and
\* no second request is ever issued.
C2_MissingLocationFails ==
    (FirstIsRedirect /\ ~HasTarget(wire[1].answer))
    => /\ Len(wire) = 1
       /\ pc \in {"check1", "done"}
       /\ pc = "done" =>
            /\ outcome.kind = "raise"
            /\ outcome.exc.type = "RuntimeError"
            /\ outcome.exc.msg = "Redirect expected but 'Location' header is missing."

C2_Witness ==
    /\ pc = "done"
    /\ Len(wire) = 1
    /\ wire[1].answer.status = 302 /\ wire[1].answer.location = ""
    /\ outcome.kind = "raise"

\* C3: when the first GET answers a 4xx or 5xx status, the call fails at once with a
\* failure derived from the HTTP error and no further request is made, even when the
\* response carries a Location header.
C3_HttpErrorFails ==
    (Answered(1) /\ IsError(wire[1].answer.status))
    => /\ Len(wire) = 1
       /\ pc \in {"check1", "done"}
       /\ pc = "done" => outcome = Raised(FailedToFetch("HTTPError"))

C3_Witness ==
    /\ pc = "done"
    /\ Len(wire) = 1
    /\ wire[1].answer.status = 404 /\ wire[1].answer.location \in Locations
    /\ outcome = Raised(FailedToFetch("HTTPError"))

\* C4: when the first GET answers a status that is neither 4xx/5xx nor 302/307 (200, 301,
\* ...), the call fails with the "Unexpected response status code" error after exactly one
\* request: no body is returned, nothing is retried.
C4_UnexpectedStatusFails ==
    (Answered(1) /\ ~IsError(wire[1].answer.status) /\ wire[1].answer.status \notin {302, 307})
    => /\ Len(wire) = 1
       /\ pc \in {"check1", "done"}
       /\ pc = "done" =>
            /\ outcome.kind = "raise"
            /\ outcome.exc.type = "RuntimeError"
            /\ outcome.exc.msg =
                 "Unexpected response status code: " \o ToString(wire[1].answer.status)

C4_Witness ==
    /\ pc = "done"
    /\ Len(wire) = 1
    /\ wire[1].answer.status = 200 /\ wire[1].answer.location \in Locations
    /\ outcome.kind = "raise"
    /\ outcome.exc.msg = "Unexpected response status code: 200"

\* C5 as stated: every failure of the call reaches the caller as the one "Failed to fetch"
\* wrapper and carries the underlying cause.
C5_AsStated ==
    (pc = "done" /\ outcome.kind = "raise")
    => /\ outcome.exc.msg = "Failed to fetch STEP content."
       /\ outcome.exc.cause # "None"

\* C5 amended: every failure reaches the caller as a RuntimeError. A transport error, an
\* HTTP 4xx/5xx status on either request and the client's redirect-limit error arrive as
\* the "Failed to fetch STEP content." wrapper carrying the underlying cause; a missing
\* redirect target and an unexpected status arrive as RuntimeErrors with their own
\* message and no wrapped cause.
C5_FailureKinds ==
    (pc = "done" /\ outcome.kind = "raise")
    => /\ outcome.exc.type = "RuntimeError"
       /\ LastAnswer = NoAnswer => outcome.exc = FailedToFetch("ConnectionError")
       /\ (LastAnswer # NoAnswer /\ IsError(LastAnswer.status))
            => outcome.exc = FailedToFetch("HTTPError")
       /\ (LastAnswer # NoAnswer /\ ~IsError(LastAnswer.status) /\ Len(wire) > 1)
            => outcome.exc = FailedToFetch("TooManyRedirects")
       /\ (LastAnswer # NoAnswer /\ ~IsError(LastAnswer.status) /\ Len(wire) = 1)
            => /\ outcome.exc.cause = "None"
               /\ outcome.exc.msg \in
                    {"Redirect expected but 'Location' header is missing.",
                     "Unexpected response status code: " \o ToString(LastAnswer.status)}

C5_Witness ==
    /\ pc = "done"
    /\ Len(wire) = 2
    /\ wire[2].answer.status = 500
    /\ outcome = Raised(FailedToFetch("HTTPError"))

\* C9 as stated: a call issues one or two GETs and never more; the first with
\* redirect-following disabled; the second only after a 302/307 with a non-empty
\* Location, to exactly that Location; bytes are returned only after two GETs whose
\* second answered a non-error status.
C9_AsStated ==
    /\ Len(wire) <= 2
    /\ Len(wire) >= 1 => ~wire[1].allow_redirects
    /\ Len(wire) >= 2 =>
         /\ FirstIsRedirect /\ HasTarget(wire[1].answer)
         /\ wire[2].url = wire[1].answer.location
    /\ outcome.kind = "bytes" =>
         /\ Len(wire) = 2
         /\ Answered(2) /\ ~IsError(wire[2].answer.status)

\* C9 amended: a call makes one or two session.get calls and never more; the first is made
\* with redirect-following disabled and so is a single request; the second is made only
\* if the first answered 302/307 with a non-empty Location and asks for exactly that
\* Location, with the client's default redirect-following, so that while its answer is a
\* redirect with a target the client issues further requests to that target, up to its
\* redirect limit; no request follows a failed one; the call returns bytes only after two
\* get calls, and then the body of the last response, whose status is not an error; the
\* session's credentials and headers are what create_session set.
C9_Requests ==
    /\ GetCalls <= 2
    /\ Len(wire) >= 1 =>
         /\ wire[1].get = 1 /\ wire[1].hop = 0
         /\ ~wire[1].allow_redirects
         /\ wire[1].url = Url
    /\ Len(wire) >= 2 =>
         /\ wire[2].get = 2 /\ wire[2].hop = 0
         /\ FirstIsRedirect /\ HasTarget(wire[1].answer)
         /\ wire[2].url = wire[1].answer.location
    /\ \A i \in 3..Len(wire) :
         /\ wire[i].get = 2 /\ wire[i].hop = i - 2
         /\ wire[i].hop <= MaxRedirects
         /\ wire[i - 1].answer.status \in {301, 302, 303, 307, 308}
         /\ HasTarget(wire[i - 1].answer)
         /\ wire[i].url = wire[i - 1].answer.location
    /\ \A i \in 1..Len(wire) :
         (wire[i].answer = NoAnswer \/ IsError(wire[i].answer.status)) => i = Len(wire)
    /\ outcome.kind = "bytes" =>
         /\ GetCalls = 2
         /\ LastAnswer # NoAnswer /\ ~IsError(LastAnswer.status)
         /\ outcome.content = LastAnswer.content
    /\ pc # "idle" =>
         sessions[session] = [auth |-> Credentials, headers |-> STEP_HEADERS, closed |-> FALSE]

C9_Witness ==
    /\ pc = "done"
    /\ Len(wire) = 3
    /\ wire[2].answer.status = 302 /\ wire[2].answer.content = "B1"
    /\ wire[3].answer.status = 200 /\ wire[3].answer.content = "B2"
    /\ outcome = Returned("B2")

\* C10: each call of export_step creates exactly one new session, configured with the
\* given access/secret key pair and the STEP headers; the initial GET and the GET of the
\* redirect Location both go through that session and carry those credentials and
\* headers; no other call uses it; it is never closed, on any exit path.
C10_OneSessionPerCall ==
    /\ Len(sessions) = ncalls
    /\ \A i \in DOMAIN sessions : ~sessions[i].closed
    /\ pc # "idle" =>
         /\ session = ncalls
         /\ sessions[session].auth = Credentials
         /\ sessions[session].headers = STEP_HEADERS
         /\ \A i \in 1..Len(wire) :
              /\ wire[i].sess = session
              /\ wire[i].hop = 0 =>
                   /\ wire[i].auth = Credentials
                   /\ wire[i].headers = STEP_HEADERS

C10_Witness ==
    /\ pc = "idle"
    /\ ncalls = 2
    /\ Len(sessions) = 2
    /\ sessions[1].auth = <<"ak1", "sk1">>
    /\ sessions[2].auth = <<"ak2", "sk1">>

\* ---- stl_to_vtk: helpers over the library calls of the current run
StageOrder == <<"trimesh.load", "MeshFix.repair", "TetGen.tetrahedralize", "meshio.write">>
AllOk(n) == \A i \in 1..n : libcalls[i].ok

C6_State ==
    /\ \A i \in 1..Len(libcalls) :
         ~libcalls[i].ok =>
            /\ i = Len(libcalls)
            /\ mpc = "done"
            /\ merror = libcalls[i].raised
    /\ merror # NoExc =>
         /\ Len(libcalls) >= 1
         /\ ~libcalls[Len(libcalls)].ok
    /\ \A i \in 1..Len(libcalls) :
         libcalls[i].fn = "meshio.write" =>
            /\ i = 4
            /\ AllOk(3)
            /\ libcalls[1].fn = "trimesh.load"
            /\ libcalls[2].fn = "MeshFix.repair"
            /\ libcalls[3].fn = "TetGen.tetrahedralize"

C6_Write ==
    files' # files =>
        /\ Len(libcalls) = 3 /\ AllOk(3)
        /\ merror = NoExc
        /\ \A p \in OutputPaths : p # margs.output_path => files'[p] = files[p]

\* C6: stl_to_vtk is all-or-nothing: when parse, repair or tetrahedralize fails, the
\* failure reaches the caller unmodified, no later stage is invoked and save_mesh_to_vtk is
\* never called; the destination file is written only after the three earlier stages have
\* succeeded.
C6_AllOrNothing == []C6_State /\ [][C6_Write]_vars

C6_Witness ==
    /\ mpc = "done"
    /\ Len(libcalls) = 3
    /\ merror = TetgenFailure
    /\ files[margs.output_path] = NoFile

\* C7: in every run the stages execute in the order parse, repair, tetrahedralize,
\* serialize, each at most once, none skipped or repeated, and each stage gets exactly
\* what the stage before it returned: repair the parsed vertices/faces, tetrahedralize the
\* repaired vertices/faces, serialize the tetrahedralizer's nodes/elements (tagged
\* "tetra") and the caller's output path.
C7_StageOrderAndDataFlow ==
    /\ Len(libcalls) <= 4
    /\ \A i \in 1..Len(libcalls) : libcalls[i].fn = StageOrder[i]
    /\ (mpc = "done" /\ merror = NoExc) => Len(libcalls) = 4
    /\ Len(libcalls) >= 1 => libcalls[1].arg = margs.stl_data
    /\ Len(libcalls) >= 2 => libcalls[2].arg = libcalls[1].ret
    /\ Len(libcalls) >= 3 => libcalls[3].arg = libcalls[2].ret
    /\ Len(libcalls) >= 4 =>
         /\ libcalls[4].arg[1] = margs.output_path
         /\ libcalls[4].arg[2].points = libcalls[3].ret[1]
         /\ libcalls[4].arg[2].cells = <<"tetra", libcalls[3].ret[2]>>
         /\ libcalls[4].ok => files[margs.output_path] = libcalls[4].arg[2]

C7_Witness ==
    /\ mpc = "done"
    /\ merror = NoExc
    /\ Len(libcalls) = 4
    /\ libcalls[1].ret = <<"V2", "F1">>
    /\ libcalls[3].arg = <<"CV2", "CF1">>
    /\ files[margs.output_path] = [points |-> "N2", cells |-> <<"tetra", "E1">>]

\* C8: the options given to stl_to_vtk reach the external tetrahedralize call verbatim:
\* the keys and their values are exactly the caller's mapping; when the options are None
\* or an empty mapping the external routine is called with no options at all.
C8_OptionsVerbatim ==
    \A i \in 1..Len(libcalls) :
        libcalls[i].fn = "TetGen.tetrahedralize" =>
            LET given == margs.tetgen_options
                kw == libcalls[i].kwargs IN
            /\ given.none => DOMAIN kw = {}
            /\ ~given.none =>
                 /\ DOMAIN kw = DOMAIN given.items
                 /\ \A k \in DOMAIN kw : kw[k] = given.items[k]

C8_Witness ==
    /\ Len(libcalls) >= 3
    /\ ~margs.tetgen_options.none
    /\ DOMAIN margs.tetgen_options.items = {"maxvolume", "mindratio"}
    /\ libcalls[3].kwargs["maxvolume"] = 2
    /\ libcalls[3].kwargs["mindratio"] = 1

====
